---- MODULE Spec2Model ----
(***************************************************************************)
(* Model of the iSleep crate (src/src/lib.rs): the two stateless steps     *)
(* snooze and accurate_snooze, the monotonic clock they read, the sleep    *)
(* primitives they block on, and the callers that drive them in a loop.    *)
(*                                                                         *)
(* Time is an integer number of clock units.  The documented example       *)
(* "total = 1 s, len = 300 ms" is total = 10, len = 3 in units of 100 ms.  *)
(***************************************************************************)
EXTENDS Integers, Naturals, Sequences, FiniteSets, TLC

\* ------------------------------------------------------------------ bounds
MaxStart == 1          \* latest caller-supplied start (the clock starts at 0)
MaxTotal == 3          \* largest budget of the concurrent callers
TestTotal == 10        \* Duration::from_secs(1) of the tests, in units of 100 ms
MaxLen == 3            \* largest step length passed to a call
MaxPast == 2           \* how far past start + total the clock is followed
MaxFalse == 2          \* the count of false returns saturates here

\* The callers.  "loop" is the single caller loop of the tests and of the
\* documented example; "snooze" and "accurate_snooze" are two concurrent
\* callers sharing start and total, each named by the step it loops on.
Threads == {"loop", "snooze", "accurate_snooze"}

\* The thread whose sequence of calls is recorded.
Main == "loop"

\* Option::None of `total.checked_sub(..)`; also "no sleep requested".
None == -1

VARIABLES
    now,        \* reading of the monotonic clock (Instant::now())
    start,      \* the `start: Instant` argument, the same in every call
    total,      \* the `total: Duration` argument, the same in every call
    pc,         \* per thread: "off", "ready" (between calls), "sleeping"
    len,        \* per thread: the `len` argument of its latest call
    callNow,    \* per thread: the clock reading its latest call took
    out,        \* per thread: [ret, sleep] of its latest call
    sumReq,     \* Main: sum of the sleep durations it requested
    trueCount,  \* Main: number of calls that returned true
    falseCount, \* Main: number of calls that returned false
    lenChanged, \* Main: it passed two different len values
    ideal       \* Main: so far no time passed in its loop body and every
                \* sleep lasted exactly the requested duration

vars == <<now, start, total, pc, len, callNow, out, sumReq, trueCount,
          falseCount, lenChanged, ideal>>

hist == <<sumReq, trueCount, falseCount, lenChanged, ideal>>

\* ------------------------------------------------------- pure functions
\* A plausible slip: `len.max(dt)`.
MinAsMax(a, b) == IF a >= b THEN a ELSE b

\* Ord::min, as in `len.min(dt)`.
Min(a, b) == IF a <= b THEN a ELSE b

\* A recorded count stops growing at cap.
Sat(x, cap) == IF x < cap THEN x ELSE cap

\* A plausible slip: the distance between the two instants.
ElapsedAbs(s, n) == IF n >= s THEN n - s ELSE s - n

\* Instant::elapsed(): now - start, zero when start is later than now.
Elapsed(s, n) == IF n >= s THEN n - s ELSE 0

\* A plausible slip: the boundary b = a counted as underflow.
CheckedSubStrict(a, b) == IF b >= a THEN None ELSE a - b

\* A plausible slip: saturating_sub, which never yields None.
SaturatingSub(a, b) == IF b > a THEN 0 ELSE a - b

\* Duration::checked_sub: None exactly when the result would be negative.
CheckedSub(a, b) == IF b > a THEN None ELSE a - b

\* A plausible slip: the step is capped by total, not by what remains.
SnoozeCapTotal(s, t, l, n) ==
    LET dt == CheckedSub(t, Elapsed(s, n))
    IN  IF dt = None THEN [ret |-> FALSE, sleep |-> None]
                     ELSE [ret |-> TRUE, sleep |-> Min(l, t)]

\* A plausible slip: the step is not capped at all.
SnoozeNoCap(s, t, l, n) ==
    LET dt == CheckedSub(t, Elapsed(s, n))
    IN  IF dt = None THEN [ret |-> FALSE, sleep |-> None]
                     ELSE [ret |-> TRUE, sleep |-> l]

\* snooze(start, total, len) called when the clock reads n: the value it
\* returns and the duration it hands to std::thread::sleep.
snooze(s, t, l, n) ==
    LET dt == CheckedSub(t, Elapsed(s, n))
    IN  IF dt = None THEN [ret |-> FALSE, sleep |-> None]
                     ELSE [ret |-> TRUE, sleep |-> Min(l, dt)]

\* A plausible slip: the native-sleep margin is taken off the request.
AccurateSnoozeMargin(s, t, l, n) ==
    LET dt == CheckedSub(t, Elapsed(s, n))
    IN  IF dt = None THEN [ret |-> FALSE, sleep |-> None]
                     ELSE [ret |-> TRUE,
                           sleep |-> IF Min(l, dt) > 0 THEN Min(l, dt) - 1 ELSE 0]

\* A plausible slip: the step of the accurate variant is not capped.
AccurateSnoozeNoCap(s, t, l, n) ==
    LET dt == CheckedSub(t, Elapsed(s, n))
    IN  IF dt = None THEN [ret |-> FALSE, sleep |-> None]
                     ELSE [ret |-> TRUE, sleep |-> l]

\* accurate_snooze(start, total, len) called when the clock reads n: the
\* value it returns and the duration it hands to spin_sleep::sleep.
accurate_snooze(s, t, l, n) ==
    LET dt == CheckedSub(t, Elapsed(s, n))
    IN  IF dt = None THEN [ret |-> FALSE, sleep |-> None]
                     ELSE [ret |-> TRUE, sleep |-> Min(l, dt)]

\* The step thread t calls, at clock reading n.
Step(t, s, tot, l, n) ==
    IF t = "accurate_snooze" THEN accurate_snooze(s, tot, l, n)
                             ELSE snooze(s, tot, l, n)

\* Main has made at least one call.
Called == pc[Main] = "sleeping" \/ trueCount > 0 \/ falseCount > 0

\* Thread t has made at least one call.
HasCalled(t) == callNow[t] # None

\* The elapsed time the latest call of thread t computed.
CallElapsed(t) == Elapsed(start, callNow[t])

\* The outcome "returned false, requested no sleep".
Expired == [ret |-> FALSE, sleep |-> None]

\* ceil(a / b) for b > 0
Ceil(a, b) == (a + b - 1) \div b

\* The count of true returns saturates above every count a budget allows.
MaxCount == start + total + 2

\* ------------------------------------------------------------ the state
InitCommon ==
    /\ now = 0
    /\ start \in 0 .. MaxStart
    /\ len = [t \in Threads |-> 0]
    /\ callNow = [t \in Threads |-> None]
    /\ out = [t \in Threads |-> [ret |-> FALSE, sleep |-> None]]
    /\ sumReq = 0
    /\ trueCount = 0
    /\ falseCount = 0
    /\ lenChanged = FALSE
    /\ ideal = TRUE

\* Two threads call concurrently with the same start and total.
Init ==
    /\ InitCommon
    /\ total \in 0 .. MaxTotal
    /\ pc = [t \in Threads |-> IF t = Main THEN "off" ELSE "ready"]

\* One caller loops on snooze, as the tests do.
InitLoop ==
    /\ InitCommon
    /\ total \in (0 .. MaxTotal) \cup {TestTotal}
    /\ pc = [t \in Threads |-> IF t = Main THEN "ready" ELSE "off"]

\* The monotonic clock advances.
Tick ==
    /\ now < start + total + MaxPast
    /\ now' = now + 1
    /\ UNCHANGED <<start, total, pc, len, callNow, out, hist>>

\* What a call of Main with len l and outcome r adds to the record.
RecordCall(l, r) ==
    LET expected == IF Called
                    THEN callNow[Main]
                         + (IF out[Main].ret THEN out[Main].sleep ELSE 0)
                    ELSE start
    IN  /\ lenChanged' = (lenChanged \/ (Called /\ l # len[Main]))
        /\ ideal' = (ideal /\ now = expected)
        /\ sumReq' = (IF r.ret THEN sumReq + r.sleep ELSE sumReq)
        /\ falseCount' = (IF r.ret THEN falseCount
                                   ELSE Sat(falseCount + 1, MaxFalse))
        /\ UNCHANGED trueCount

\* Thread t calls its step with some len: it reads the clock, and either
\* returns false at once or starts to sleep for the capped duration.
Call(t) ==
    /\ pc[t] = "ready"
    /\ \E l \in 0 .. MaxLen :
         LET r == Step(t, start, total, l, now)
         IN  /\ len' = [len EXCEPT ![t] = l]
             /\ callNow' = [callNow EXCEPT ![t] = now]
             /\ out' = [out EXCEPT ![t] = r]
             /\ pc' = [pc EXCEPT ![t] = IF r.ret THEN "sleeping" ELSE "ready"]
             /\ IF t = Main THEN RecordCall(l, r) ELSE UNCHANGED hist
    /\ UNCHANGED <<now, start, total>>

\* The sleep of thread t ends, no earlier than requested, and the call
\* returns true.
Wake(t) ==
    /\ pc[t] = "sleeping"
    /\ now >= callNow[t] + out[t].sleep
    /\ pc' = [pc EXCEPT ![t] = "ready"]
    /\ IF t = Main
       THEN /\ trueCount' = Sat(trueCount + 1, MaxCount)
            /\ ideal' = (ideal /\ now = callNow[t] + out[t].sleep)
            /\ UNCHANGED <<sumReq, falseCount, lenChanged>>
       ELSE UNCHANGED hist
    /\ UNCHANGED <<now, start, total, len, callNow, out>>

Next ==
    \/ Tick
    \/ \E t \in Threads : Call(t)
    \/ \E t \in Threads : Wake(t)

Spec == Init /\ [][Next]_vars

SpecLoop == InitLoop /\ [][Next]_vars

\* The clock keeps advancing, the loop keeps calling, and sleeps end.
FairLoop ==
    /\ InitLoop
    /\ [][Next]_vars
    /\ WF_vars(Tick)
    /\ \A t \in Threads : WF_vars(Call(t)) /\ WF_vars(Wake(t))

TypeOK ==
    /\ now \in Nat /\ start \in Nat /\ total \in Nat
    /\ sumReq \in Nat /\ trueCount \in 0 .. MaxCount /\ falseCount \in 0 .. MaxFalse
    /\ lenChanged \in BOOLEAN /\ ideal \in BOOLEAN
    /\ \A t \in Threads :
         /\ pc[t] \in {"off", "ready", "sleeping"}
         /\ out[t].ret \in BOOLEAN
         /\ out[t].sleep \in Nat \cup {None}

\* ------------------------------------------------------------ the claims

\* C1: in one session whose start is captured at creation (start = 0, the
\* clock reading of the initial state), whatever len each call passes and
\* however long the sleeps overshoot, the sum of the requested sleep
\* durations never exceeds total.
C1_SumOfRequestsWithinTotal == start = 0 => sumReq <= total

C1_Witness ==
    /\ start = 0 /\ total >= 3 /\ sumReq = total
    /\ trueCount >= 2 /\ lenChanged /\ ~ideal

\* C2 as stated: a call made at elapsed >= total, equality included,
\* returns false and requests no sleep.
C2_Original ==
    \A t \in Threads :
        HasCalled(t) /\ CallElapsed(t) >= total => out[t] = Expired

\* C2 as amended: a call made at elapsed > total returns false and requests
\* no sleep, for any len; a call made at elapsed exactly equal to total
\* returns true and requests a sleep of zero length.
C2_Amended ==
    \A t \in Threads :
        HasCalled(t) =>
            /\ CallElapsed(t) > total => out[t] = Expired
            /\ CallElapsed(t) = total => out[t] = [ret |-> TRUE, sleep |-> 0]

C2_Witness ==
    \E t, u \in Threads :
        /\ HasCalled(t) /\ CallElapsed(t) > total /\ len[t] > 0
        /\ out[t] = Expired
        /\ HasCalled(u) /\ CallElapsed(u) = total /\ total > 0 /\ len[u] > 0
        /\ out[u].ret

\* C3: exhaustion is one-way: once a call of the session has returned
\* false, the latest call has returned false too and the caller is never
\* again put to sleep, whatever len values were passed.
C3_ExhaustionIsOneWay ==
    falseCount > 0 => out[Main] = Expired /\ pc[Main] = "ready"

C3_Witness ==
    /\ falseCount >= 2 /\ trueCount >= 1 /\ lenChanged
    /\ callNow[Main] > start + total + 1
    /\ out[Main] = Expired

\* The idealised run of C4: a constant len with 0 < len < total, the first
\* call at elapsed = 0, every sleep lasting exactly the requested duration
\* and no time passing between a return and the next call.
C4_Ideal ==
    /\ Called /\ ideal /\ ~lenChanged
    /\ 0 < len[Main] /\ len[Main] < total

\* The number of the latest call of Main, counting from 1.
C4_CallNo == IF pc[Main] = "sleeping" THEN trueCount + 1 ELSE trueCount

\* C4 as stated: in the idealised run the calls that return true before
\* the first false number ceil(total / len): never more, and exactly that
\* many once false has been returned.
C4_Original ==
    C4_Ideal =>
        /\ trueCount <= Ceil(total, len[Main])
        /\ falseCount > 0 => trueCount = Ceil(total, len[Main])

\* C4 as amended: in the idealised run the first ceil(total / len) calls
\* return true and request len, ..., len and then total - (ceil - 1) * len
\* (3, 3, 3, 1 for total = 10 and len = 3), which brings elapsed to exactly
\* total; every further call of the idealised run returns true with a
\* zero-length sleep, and no call returns false.
C4_Amended ==
    C4_Ideal =>
        LET n == Ceil(total, len[Main])
            k == C4_CallNo
        IN  /\ falseCount = 0
            /\ out[Main].ret
            /\ out[Main].sleep = IF k < n THEN len[Main]
                                 ELSE IF k = n THEN total - (n - 1) * len[Main]
                                 ELSE 0

C4_Witness ==
    /\ C4_Ideal /\ total = 10 /\ len[Main] = 3
    /\ pc[Main] = "ready" /\ trueCount = 4
    /\ out[Main] = [ret |-> TRUE, sleep |-> 1] /\ sumReq = 10

\* The latest call of Main is its first one.
FirstCall ==
    /\ Called
    /\ trueCount + falseCount + (IF pc[Main] = "sleeping" THEN 1 ELSE 0) = 1

\* C5 as stated: with total = 0 the very first call returns false and
\* requests no sleep, whatever the clock reads.
C5_Original == total = 0 /\ FirstCall => out[Main] = Expired

\* C5 as amended: with total = 0 the very first call returns false and
\* requests no sleep whenever its elapsed time is above zero; made at
\* elapsed = 0 it returns true and requests a sleep of zero length.
C5_Amended ==
    total = 0 /\ FirstCall =>
        IF CallElapsed(Main) > 0 THEN out[Main] = Expired
                                 ELSE out[Main] = [ret |-> TRUE, sleep |-> 0]

C5_Witness ==
    /\ total = 0 /\ FirstCall /\ CallElapsed(Main) > 0 /\ len[Main] > 0
    /\ out[Main] = Expired /\ falseCount = 1

\* C6: a call made at elapsed < total returns true and requests exactly
\* min(len, total - elapsed): at most len, at most what remains, and zero
\* when len = 0.
C6_RequestIsMinOfLenAndRemaining ==
    \A t \in Threads :
        HasCalled(t) /\ CallElapsed(t) < total =>
            /\ out[t].ret
            /\ out[t].sleep = Min(len[t], total - CallElapsed(t))
            /\ out[t].sleep <= len[t]
            /\ out[t].sleep <= total - CallElapsed(t)
            /\ len[t] = 0 => out[t].sleep = 0

C6_Witness ==
    \E t, u \in Threads :
        /\ HasCalled(t) /\ CallElapsed(t) < total /\ len[t] = 0
        /\ out[t] = [ret |-> TRUE, sleep |-> 0]
        /\ HasCalled(u) /\ CallElapsed(u) < total
        /\ total - CallElapsed(u) < len[u]
        /\ out[u] = [ret |-> TRUE, sleep |-> total - CallElapsed(u)]

\* C7: a snooze call and an accurate_snooze call that pass the same len and
\* read the same clock return the same value and request the same sleep.
C7_AccurateMatchesCoarse ==
    /\ HasCalled("snooze") /\ HasCalled("accurate_snooze")
    /\ len["snooze"] = len["accurate_snooze"]
    /\ callNow["snooze"] = callNow["accurate_snooze"]
    => out["snooze"] = out["accurate_snooze"]

C7_Witness ==
    /\ HasCalled("snooze") /\ HasCalled("accurate_snooze")
    /\ len["snooze"] = len["accurate_snooze"]
    /\ callNow["snooze"] = callNow["accurate_snooze"]
    /\ callNow["snooze"] > start
    /\ out["accurate_snooze"].ret /\ out["accurate_snooze"].sleep > 0
    /\ out["accurate_snooze"].sleep < len["accurate_snooze"]

\* C8: while the clock keeps advancing, the caller loop eventually gets
\* false from a call, for every total and every len, zero included.
C8_LoopTerminates == <>(falseCount > 0)

C8_Witness ==
    /\ falseCount > 0 /\ trueCount > 0 /\ ~lenChanged /\ len[Main] = 0
    /\ total > 0

\* C9: under any interleaving of the threads, a call that returns true and
\* reads a clock not earlier than start requests a sleep that ends no later
\* than start + total.
C9_NoRequestPastDeadline ==
    \A t \in Threads :
        HasCalled(t) /\ out[t].ret /\ start <= callNow[t] =>
            callNow[t] + out[t].sleep <= start + total

C9_Witness ==
    /\ callNow["snooze"] # callNow["accurate_snooze"]
    /\ \A t \in {"snooze", "accurate_snooze"} :
         /\ pc[t] = "sleeping" /\ start <= callNow[t]
         /\ out[t].sleep > 0 /\ out[t].sleep < len[t]
         /\ callNow[t] + out[t].sleep = start + total

\* C10: a call that reads a clock earlier than start takes elapsed as zero:
\* it returns true and requests min(len, total); calls return true as long
\* as the clock has not passed start + total, and false after that.
C10_FutureStartSaturates ==
    \A t \in Threads :
        HasCalled(t) =>
            /\ callNow[t] < start =>
                   out[t] = [ret |-> TRUE, sleep |-> Min(len[t], total)]
            /\ callNow[t] <= start + total => out[t].ret
            /\ callNow[t] > start + total => out[t] = Expired

C10_Witness ==
    \E t, u \in Threads :
        /\ HasCalled(t) /\ callNow[t] < start /\ total > 0
        /\ out[t] = [ret |-> TRUE, sleep |-> Min(len[t], total)]
        /\ out[t].sleep > 0
        /\ HasCalled(u) /\ callNow[u] > start + total /\ out[u] = Expired
====
